---- MODULE Spec2Model ----
(***************************************************************************)
(* Model of the pixel webhook: the structured events handler               *)
(* (src/api/pixel.js) and the free-form handler (src/unnamed/part_000).    *)
(*                                                                         *)
(* JavaScript values are records [t, v]: t is the typeof-like tag and v    *)
(* the content.  A JS string is a sequence of one-character strings, so    *)
(* that trim, split, startsWith and replace are computed character by      *)
(* character.  An object is a function from property names to values.      *)
(* A dotted path is kept as the list path.split('.') produces.             *)
(***************************************************************************)
EXTENDS Integers, Sequences, FiniteSets, TLC

VARIABLES handler, payload, query, GHL_API_KEY, GOOGLE_SHEET_ID,
          GOOGLE_SHEETS_CREDENTIALS, pc, idx, rowsToLog, existingContact,
          calls, responses, log, obj, path, result

vars == <<handler, payload, query, GHL_API_KEY, GOOGLE_SHEET_ID,
          GOOGLE_SHEETS_CREDENTIALS, pc, idx, rowsToLog, existingContact,
          calls, responses, log, obj, path, result>>

reqVars == <<handler, payload, query, GHL_API_KEY, GOOGLE_SHEET_ID,
             GOOGLE_SHEETS_CREDENTIALS>>

getVars == <<obj, path, result>>

(* ---------- bounds ---------- *)
MaxEvents == 2
MaxPathLen == 3

(* ---------- JavaScript values ---------- *)
Undef == [t |-> "undefined", v |-> <<>>]
Null == [t |-> "null", v |-> <<>>]
Str(s) == [t |-> "string", v |-> s]
Num(n) == [t |-> "number", v |-> n]
Obj(f) == [t |-> "object", v |-> f]
Arr(s) == [t |-> "array", v |-> s]
Empty == Str(<<>>)
EmptyObj == Obj([k \in {} |-> Undef])

IsNullish(x) == x.t \in {"null", "undefined"}

\* JS truthiness, as used by `||`, `&&`, `!` and `if`
Truthy(x) ==
    CASE x.t = "undefined" -> FALSE
      [] x.t = "null" -> FALSE
      [] x.t = "string" -> Len(x.v) > 0
      [] x.t = "number" -> x.v # 0
      [] x.t = "TypeError" -> FALSE
      [] OTHER -> TRUE

\* a || b
OrElse(a, b) == IF Truthy(a) THEN a ELSE b

\* x[key] for a property name that is neither an index nor "length": a
\* TypeError on null and undefined, the own property of an object, undefined
\* on anything else
TypeError == [t |-> "TypeError", v |-> <<>>]
Prop(x, key) ==
    IF IsNullish(x) THEN TypeError
    ELSE IF x.t = "object" /\ key \in DOMAIN x.v THEN x.v[key]
    ELSE Undef

SameValue(x, y) == x.t = y.t /\ x = y

(* ---------- strings ---------- *)
Whitespace == {" ", "\t"}
Digits == {"0", "1", "2", "3", "4", "5", "6", "7", "8", "9"}

RECURSIVE TrimStart(_)
TrimStart(s) ==
    IF s # <<>> /\ Head(s) \in Whitespace THEN TrimStart(Tail(s)) ELSE s

RECURSIVE TrimEnd(_)
TrimEnd(s) ==
    IF s # <<>> /\ s[Len(s)] \in Whitespace
    THEN TrimEnd(SubSeq(s, 1, Len(s) - 1)) ELSE s

\* String.prototype.trim
Trim(s) == TrimEnd(TrimStart(s))

\* s.split(',')[0]
RECURSIVE SplitFirst(_)
SplitFirst(s) ==
    IF s = <<>> \/ Head(s) = "," THEN <<>>
    ELSE <<Head(s)>> \o SplitFirst(Tail(s))

\* s.startsWith('+')
StartsWithPlus(s) == s # <<>> /\ Head(s) = "+"

IsDigit(c) == c \in Digits

\* s.replace(/\D/g, '')
StripNonDigits(s) == SelectSeq(s, IsDigit)

(* ---------- get (pixel.js 136-144) ---------- *)
GetReturnsFound(res, defaultValue) ==
    IF res.t = "undefined" THEN defaultValue ELSE res

RECURSIVE get(_, _, _)
get(o, keys, defaultValue) ==
    IF o.t = "TypeError" THEN o
    ELSE IF keys = <<>> THEN GetReturnsFound(o, defaultValue)
    ELSE IF IsNullish(o) THEN defaultValue
    ELSE get(Prop(o, Head(keys)), Tail(keys), defaultValue)

(* ---------- formatSheetCell (pixel.js 146-151) ---------- *)
formatSheetCell(value) ==
    IF value.t = "string" /\ StartsWithPlus(Trim(value.v))
    THEN Str(<<"'">> \o value.v)
    ELSE value

(* ---------- row schema (pixel.js 22-35) ---------- *)
SHEET_HEADERS == <<
    "PixelID", "HemSha256", "EventTimestamp", "EventType", "IPAddress", "ActivityStartDate", "ActivityEndDate", "ReferrerURL", "UUID",
    "FIRST_NAME", "LAST_NAME", "PERSONAL_ADDRESS", "PERSONAL_CITY", "PERSONAL_STATE", "PERSONAL_ZIP", "PERSONAL_ZIP4", "AGE_RANGE", "CHILDREN",
    "GENDER", "HOMEOWNER", "MARRIED", "NET_WORTH", "INCOME_RANGE", "DIRECT_NUMBER", "DIRECT_NUMBER_DNC", "MOBILE_PHONE", "MOBILE_PHONE_DNC",
    "PERSONAL_PHONE", "PERSONAL_PHONE_DNC", "BUSINESS_EMAIL", "PERSONAL_EMAILS", "DEEP_VERIFIED_EMAILS", "SHA256_PERSONAL_EMAIL",
    "SHA256_BUSINESS_EMAIL", "JOB_TITLE", "HEADLINE", "DEPARTMENT", "SENIORITY_LEVEL", "INFERRED_YEARS_EXPERIENCE", "COMPANY_NAME_HISTORY",
    "JOB_TITLE_HISTORY", "EDUCATION_HISTORY", "COMPANY_ADDRESS", "COMPANY_DESCRIPTION", "COMPANY_DOMAIN", "COMPANY_EMPLOYEE_COUNT",
    "COMPANY_LINKEDIN_URL", "COMPANY_NAME", "COMPANY_PHONE", "COMPANY_REVENUE", "COMPANY_SIC", "COMPANY_NAICS", "COMPANY_CITY", "COMPANY_STATE",
    "COMPANY_ZIP", "COMPANY_INDUSTRY", "LINKEDIN_URL", "TWITTER_URL", "FACEBOOK_URL", "SOCIAL_CONNECTIONS", "SKILLS", "INTERESTS",
    "SKIPTRACE_MATCH_SCORE", "SKIPTRACE_NAME", "SKIPTRACE_ADDRESS", "SKIPTRACE_CITY", "SKIPTRACE_STATE", "SKIPTRACE_ZIP",
    "SKIPTRACE_LANDLINE_NUMBERS", "SKIPTRACE_WIRELESS_NUMBERS", "SKIPTRACE_CREDIT_RATING", "SKIPTRACE_DNC", "SKIPTRACE_EXACT_AGE",
    "SKIPTRACE_ETHNIC_CODE", "SKIPTRACE_LANGUAGE_CODE", "SKIPTRACE_IP", "SKIPTRACE_B2B_ADDRESS", "SKIPTRACE_B2B_PHONE",
    "SKIPTRACE_B2B_SOURCE", "SKIPTRACE_B2B_WEBSITE" >>

Columns == 1..Len(SHEET_HEADERS)

\* the logData keys read from the event itself (pixel.js 159-166)
EventField ==
    [PixelID |-> "pixel_id", HemSha256 |-> "hem_sha256",
     EventTimestamp |-> "event_timestamp", EventType |-> "event_type",
     IPAddress |-> "ip_address", ActivityStartDate |-> "activity_start_date",
     ActivityEndDate |-> "activity_end_date", ReferrerURL |-> "referrer_url"]

\* the logData keys passed through formatSheetCell (pixel.js 182, 184, 186)
FormattedColumns == {"DIRECT_NUMBER", "MOBILE_PHONE", "PERSONAL_PHONE"}

\* const resolution = event.resolution || {}   (event is not nullish)
resolution(event) == OrElse(Prop(event, "resolution"), EmptyObj)

\* the value get() extracts for a column, before any formatting
Extracted(event, h) ==
    IF h \in DOMAIN EventField
    THEN get(event, <<EventField[h]>>, Empty)
    ELSE get(resolution(event), <<h>>, Empty)

\* const logData = {...}   (pixel.js 158-239)
logData(event) ==
    [h \in {SHEET_HEADERS[k] : k \in Columns} |->
        IF h \in FormattedColumns
        THEN formatSheetCell(Extracted(event, h))
        ELSE Extracted(event, h)]

\* a projection that forgets the `|| ''`
newRowNoDefault(event) ==
    LET data == logData(event)
    IN  [k \in Columns |-> data[SHEET_HEADERS[k]]]

\* SHEET_HEADERS.map(header => logData[header] || '')   (pixel.js 241)
newRow(event) ==
    LET data == logData(event)
    IN  [k \in Columns |-> OrElse(data[SHEET_HEADERS[k]], Empty)]

(* ---------- lead fields (pixel.js 245-251) ---------- *)
firstName(event) == get(resolution(event), <<"FIRST_NAME">>, Empty)
lastName(event) == get(resolution(event), <<"LAST_NAME">>, Empty)
rawEmails(event) == get(resolution(event), <<"PERSONAL_EMAILS">>, Empty)
rawMobile(event) == get(resolution(event), <<"MOBILE_PHONE">>, Empty)
\* only evaluated when the raw value is a string (otherwise .split throws)
email(event) == Str(Trim(SplitFirst(rawEmails(event).v)))
rawPhone(event) == Str(Trim(SplitFirst(rawMobile(event).v)))
sanitizedPhone(event) == Str(StripNonDigits(rawPhone(event).v))

\* `event.resolution` on null, or `.split` on a value that is not a string,
\* raises a TypeError inside the loop body
ThrowsBeforeRow(event) == IsNullish(event)
ThrowsAfterRow(event) ==
    /\ ~IsNullish(event)
    /\ \/ rawEmails(event).t # "string"
       \/ rawMobile(event).t # "string"

\* if (firstName && lastName && (email || sanitizedPhone))   (pixel.js 254)
Qualified(event) ==
    /\ Truthy(firstName(event))
    /\ Truthy(lastName(event))
    /\ Truthy(email(event)) \/ Truthy(sanitizedPhone(event))

(* ---------- requests the webhook can receive ---------- *)
Jane ==
    Obj([pixel_id |-> Str(<<"p">>), event_type |-> Str(<<"v">>),
         event_timestamp |-> Str(<<"9">>),
         event_data |-> Obj([url |-> Str(<<"u">>)]),
         resolution |-> Obj([FIRST_NAME |-> Str(<<"J">>),
                             LAST_NAME |-> Str(<<"D">>),
                             PERSONAL_EMAILS |-> Str(<<"j", "@", "x", ",", "o">>),
                             MOBILE_PHONE |-> Str(<<"+", "1", " ", "(", "5", ")">>)])])

Visitor ==
    Obj([pixel_id |-> Str(<<"p">>), ip_address |-> Str(<<"1", ".", "2">>),
         referrer_url |-> Null])

CompanyOnly ==
    Obj([pixel_id |-> Str(<<"q">>),
         resolution |-> Obj([FIRST_NAME |-> Str(<<"J">>),
                             CHILDREN |-> Num(0),
                             SKIPTRACE_EXACT_AGE |-> Num(4),
                             COMPANY_PHONE |-> Str(<<"+", "1">>),
                             MOBILE_PHONE |-> Str(<<" ", "+", "1">>),
                             PERSONAL_PHONE |-> Str(<<"5", "+">>)])])

BlankName ==
    Obj([resolution |-> Obj([FIRST_NAME |-> Str(<<" ">>),
                             LAST_NAME |-> Str(<<"D">>),
                             PERSONAL_EMAILS |-> Str(<<"j", "@", "x">>)])])

PhoneOnly ==
    Obj([event_type |-> Str(<<"c">>),
         resolution |-> Obj([FIRST_NAME |-> Str(<<"A">>),
                             LAST_NAME |-> Str(<<"B">>),
                             MOBILE_PHONE |-> Str(<<"(", "5", ")", ",", "6">>)])])

NoContact ==
    Obj([resolution |-> Obj([FIRST_NAME |-> Str(<<"A">>),
                             LAST_NAME |-> Str(<<"B">>),
                             PERSONAL_EMAILS |-> Str(<<" ", ",", "o">>),
                             MOBILE_PHONE |-> Str(<<"a", "b">>)])])

BadFields ==
    Obj([resolution |-> Obj([FIRST_NAME |-> Str(<<"A">>),
                             LAST_NAME |-> Str(<<"B">>),
                             PERSONAL_EMAILS |-> Null,
                             MOBILE_PHONE |-> Num(5)])])

SampleEvents ==
    <<Jane, Visitor, CompanyOnly, BlankName, PhoneOnly, NoContact,
      Null, BadFields>>

\* request bodies whose `events` is a list of at most MaxEvents events
Batches ==
    UNION {[1..n -> 1..Len(SampleEvents)] : n \in 0..MaxEvents}

BatchPayload(b) ==
    Obj([events |-> Arr([i \in 1..Len(b) |-> SampleEvents[b[i]]])])

\* request bodies of another shape (express.json hands over objects and arrays)
OddPayloads ==
    <<EmptyObj,
      Obj([events |-> Null]),
      Obj([events |-> Str(<<"a", "b">>)]),
      Obj([events |-> Num(5)]),
      Obj([events |-> Arr(<<Num(7)>>)]),
      Obj([events |-> Obj([a |-> Null])]),
      Arr(<<Num(1)>>)>>

\* free-form variant: query and body as insertion-ordered <<key, value>> lists
FreeformObjects ==
    << <<>>,
       << <<"event", "click">> >>,
       << <<"id", "7">> >>,
       << <<"id", "8">>, <<"event", "view">> >> >>

(* ---------- the structured handler's view of the request ---------- *)
\* const events = payload.events || []   (pixel.js 129)
events == OrElse(Prop(payload, "events"), Arr(<<>>))

\* events.length === 0   (pixel.js 131)
LengthIsZero(e) == e.t \in {"array", "string"} /\ Len(e.v) = 0

\* for (const event of events): only arrays and strings are iterable
Iterable(e) == e.t \in {"array", "string"}

Items(e) ==
    IF e.t = "array" THEN e.v
    ELSE IF e.t = "string" THEN [i \in 1..Len(e.v) |-> Str(<<e.v[i]>>)]
    ELSE <<>>

NumEvents == Len(Items(events))
EventAt(i) == Items(events)[i]

(* ---------- helpers shared by the actions ---------- *)
NoContent == 204

Respond == Append(responses, [status |-> NoContent, body |-> <<>>])

StartCall(op, ev, arg) ==
    Append(calls, [op |-> op, ev |-> ev, status |-> "pending", arg |-> arg])

FinishCall(status) == [calls EXCEPT ![Len(calls)].status = status]

Logged(msg, ev) == Append(log, [msg |-> msg, ev |-> ev])

\* the row-sink is configured   (pixel.js 45, part_000 28)
SheetConfigured == GOOGLE_SHEET_ID /\ GOOGLE_SHEETS_CREDENTIALS # "absent"

\* a lookup that forgets the API-key guard
LookupSkippedNoKeyGuard(e, p) == ~Truthy(e) /\ ~Truthy(p)

\* findGHLContact returns null before any request   (pixel.js 75-76)
LookupSkipped(e, p) == ~GHL_API_KEY \/ (~Truthy(e) /\ ~Truthy(p))

\* a lookup whose catch block hands back a contact
LookupResultErrorAsContact(outcome) ==
    IF outcome \in {"found", "error"}
    THEN Obj([id |-> Str(<<"c">>)]) ELSE Null

\* response.data.contacts.length > 0 ? contacts[0] : null; any rejection
\* (a 404 as well as a network, auth or API error) returns null
Contact == Obj([id |-> Str(<<"c">>)])
LookupOutcomes == {"found", "empty", "error"}
LookupResult(outcome) == IF outcome = "found" THEN Contact ELSE Null

\* the loop moves to the next event
NextIdx(i) == i + 1

\* a create-contact call that is started but not awaited
AwaitingUnlessCreate(op) == IF op = "create" THEN "loop" ELSE op

\* position of the handler while it awaits an outbound call
Awaiting(op) == op

(* ---------- free-form handler helpers (part_000 59-90) ---------- *)
HasKey(o, k) == \E i \in 1..Len(o) : o[i][1] = k
ValueOf(o, k) == o[CHOOSE i \in 1..Len(o) : o[i][1] = k][2]

\* { ...req.query, ...req.body }: a body key overwrites in place, a new key
\* is added at the end
RECURSIVE Spread(_, _)
Spread(target, source) ==
    IF source = <<>> THEN target
    ELSE LET kv == Head(source)
             merged == IF HasKey(target, kv[1])
                       THEN [i \in 1..Len(target) |->
                               IF target[i][1] = kv[1] THEN kv ELSE target[i]]
                       ELSE Append(target, kv)
         IN  Spread(merged, Tail(source))

allData == Spread(Spread(<<>>, query), payload)

\* allData.event || 'PixelEvent'
eventName ==
    IF HasKey(allData, "event") /\ ValueOf(allData, "event") # ""
    THEN ValueOf(allData, "event") ELSE "PixelEvent"

\* JSON.stringify of a flat object of strings, as a sequence of tokens
RECURSIVE Members(_)
Members(o) ==
    IF o = <<>> THEN <<>>
    ELSE <<"\"", o[1][1], "\"", ":", "\"", o[1][2], "\"">>
         \o (IF Len(o) > 1 THEN <<",">> ELSE <<>>) \o Members(Tail(o))

Stringify(o) == <<"{">> \o Members(o) \o <<"}">>

logRow == <<Str(<<"timestamp">>), Str(<<eventName>>), Str(Stringify(allData))>>

(* ---------- initial states ---------- *)
\* GOOGLE_SHEET_ID set or not; GOOGLE_SHEETS_CREDENTIALS absent, not JSON, valid
SheetEnvs ==
    {<<FALSE, "valid">>, <<TRUE, "absent">>, <<TRUE, "invalid">>,
     <<TRUE, "valid">>}

Idle ==
    /\ obj = Undef
    /\ path = <<>>
    /\ result = Undef

InitRun ==
    /\ pc = "start"
    /\ idx = 0
    /\ rowsToLog = <<>>
    /\ existingContact = Null
    /\ calls = <<>>
    /\ responses = <<>>
    /\ log = <<>>

Init ==
    /\ GHL_API_KEY \in BOOLEAN
    /\ \E env \in SheetEnvs :
         /\ GOOGLE_SHEET_ID = env[1]
         /\ GOOGLE_SHEETS_CREDENTIALS = env[2]
    /\ \/ /\ handler = "structured"
          /\ query = <<>>
          /\ \/ \E b \in Batches : payload = BatchPayload(b)
             \/ \E k \in 1..Len(OddPayloads) : payload = OddPayloads[k]
       \/ /\ handler = "freeform"
          /\ \E q \in 1..Len(FreeformObjects) : query = FreeformObjects[q]
          /\ \E b \in 1..Len(FreeformObjects) : payload = FreeformObjects[b]
    /\ InitRun
    /\ Idle

(* ---------- appendToSheet (pixel.js 44-71, part_000 27-54) ---------- *)
\* Runs appendToSheet up to its await; the caller responds when it returns.
\* Returns without a request when the sink is unconfigured or rows is empty,
\* and when JSON.parse of the credentials throws inside the try block.
appendToSheet(rows, checksEmpty) ==
    IF ~SheetConfigured
    THEN /\ log' = Logged("sheets-not-configured", 0)
         /\ responses' = Respond
         /\ pc' = "done"
         /\ UNCHANGED calls
    ELSE IF checksEmpty /\ Len(rows) = 0
    THEN /\ log' = Logged("no-data", 0)
         /\ responses' = Respond
         /\ pc' = "done"
         /\ UNCHANGED calls
    ELSE IF GOOGLE_SHEETS_CREDENTIALS = "invalid"
    THEN /\ log' = Logged("sheet-failed", 0)
         /\ responses' = Respond
         /\ pc' = "done"
         /\ UNCHANGED calls
    ELSE /\ calls' = StartCall("append", 0, [rows |-> rows])
         /\ pc' = Awaiting("append")
         /\ UNCHANGED <<log, responses>>

\* sheets.spreadsheets.values.append resolves or rejects; then res.status(204)
AppendReturns ==
    /\ pc = "append"
    /\ \E outcome \in {"ok", "fail"} :
         /\ calls' = FinishCall(outcome)
         /\ log' = Logged(IF outcome = "ok" THEN "sheet-logged"
                          ELSE "sheet-failed", 0)
    /\ responses' = Respond
    /\ pc' = "done"
    /\ UNCHANGED <<reqVars, getVars, idx, rowsToLog, existingContact>>

(* ---------- free-form handler (part_000 59-90) ---------- *)
HandleFreeform ==
    /\ pc = "start"
    /\ handler = "freeform"
    /\ rowsToLog' = <<logRow>>
    /\ appendToSheet(<<logRow>>, FALSE)
    /\ UNCHANGED <<reqVars, getVars, idx, existingContact>>

(* ---------- structured handler (pixel.js 126-283) ---------- *)
\* lines 127-134 and the entry of the for-of loop
HandleStructured ==
    /\ pc = "start"
    /\ handler = "structured"
    /\ IF LengthIsZero(events)
       THEN /\ log' = Logged("no-events", 0)
            /\ responses' = Respond
            /\ pc' = "done"
            /\ UNCHANGED idx
       ELSE IF ~Iterable(events)
       THEN /\ pc' = "threw"
            /\ UNCHANGED <<log, responses, idx>>
       ELSE /\ pc' = "loop"
            /\ idx' = 1
            /\ UNCHANGED <<log, responses>>
    /\ UNCHANGED <<reqVars, getVars, rowsToLog, existingContact, calls>>

\* createGHLContact up to its await   (pixel.js 97-100)
createGHLContact(ev, contactData, started) ==
    IF ~GHL_API_KEY
    THEN /\ idx' = NextIdx(idx)
         /\ pc' = "loop"
         /\ calls' = started
    ELSE /\ calls' = Append(started, [op |-> "create", ev |-> ev,
                                      status |-> "pending", arg |-> contactData])
         /\ pc' = Awaiting("create")
         /\ UNCHANGED idx

\* addGHLNote up to its await   (pixel.js 112-115)
addGHLNote(ev, contactId, note, started) ==
    IF ~GHL_API_KEY
    THEN /\ idx' = NextIdx(idx)
         /\ pc' = "loop"
         /\ calls' = started
    ELSE /\ calls' = Append(started, [op |-> "note", ev |-> ev,
                                      status |-> "pending",
                                      arg |-> [contactId |-> contactId,
                                               note |-> note]])
         /\ pc' = Awaiting("note")
         /\ UNCHANGED idx

newContactData(event) ==
    [firstName |-> firstName(event), lastName |-> lastName(event),
     email |-> email(event), phone |-> sanitizedPhone(event),
     source |-> "Pixel Tracker Webhook"]

noteFor(event) ==
    [eventType |-> get(event, <<"event_type">>, Empty),
     url |-> get(event, <<"event_data", "url">>, Str(<<"N/A">>)),
     timestamp |-> get(event, <<"event_timestamp">>, Empty)]

\* if (existingContact) ... else ...   (pixel.js 258-275); `started` and
\* `startedLog` are the calls and the console output up to this point
SyncBranch(ev, contact, started, startedLog) ==
    IF Truthy(contact)
    THEN /\ log' = Append(startedLog, [msg |-> "contact-exists", ev |-> ev])
         /\ addGHLNote(ev, Prop(contact, "id"), noteFor(EventAt(ev)), started)
    ELSE /\ log' = Append(startedLog, [msg |-> "creating-contact", ev |-> ev])
         /\ createGHLContact(ev, newContactData(EventAt(ev)), started)

\* one iteration of the loop body up to its first await   (pixel.js 155-256)
ProcessEvent ==
    /\ pc = "loop"
    /\ idx <= NumEvents
    /\ LET event == EventAt(idx) IN
         IF ThrowsBeforeRow(event)
         THEN /\ pc' = "threw"
              /\ UNCHANGED <<idx, rowsToLog, existingContact, calls, log>>
         ELSE /\ rowsToLog' = Append(rowsToLog, newRow(event))
              /\ IF ThrowsAfterRow(event)
                 THEN /\ pc' = "threw"
                      /\ UNCHANGED <<idx, existingContact, calls, log>>
                 ELSE IF ~Qualified(event)
                 THEN /\ log' = Logged("not-qualified", idx)
                      /\ idx' = NextIdx(idx)
                      /\ pc' = "loop"
                      /\ UNCHANGED <<existingContact, calls>>
                 ELSE IF LookupSkipped(email(event), sanitizedPhone(event))
                 THEN /\ existingContact' = Null
                      /\ SyncBranch(idx, Null, calls, Logged("qualified", idx))
                 ELSE /\ log' = Logged("qualified", idx)
                      /\ calls' = StartCall("lookup", idx,
                             [email |-> email(event),
                              phone |-> sanitizedPhone(event)])
                      /\ pc' = Awaiting("lookup")
                      /\ UNCHANGED <<idx, existingContact>>
    /\ UNCHANGED <<reqVars, getVars, responses>>

\* axios.get resolves or rejects; findGHLContact returns   (pixel.js 84-93)
LookupReturns ==
    /\ pc = "lookup"
    /\ \E outcome \in LookupOutcomes :
         /\ existingContact' = LookupResult(outcome)
         /\ SyncBranch(idx, LookupResult(outcome), FinishCall(outcome), log)
    /\ UNCHANGED <<reqVars, getVars, rowsToLog, responses>>

\* axios.post /contacts/ resolves or rejects   (pixel.js 100-108)
CreateReturns ==
    /\ pc = "create"
    /\ \E outcome \in {"ok", "fail"} :
         /\ calls' = FinishCall(outcome)
         /\ log' = Logged(IF outcome = "ok" THEN "created" ELSE "create-failed", idx)
    /\ idx' = NextIdx(idx)
    /\ pc' = "loop"
    /\ UNCHANGED <<reqVars, getVars, rowsToLog, existingContact, responses>>

\* axios.post /contacts/:id/notes resolves or rejects   (pixel.js 115-121)
NoteReturns ==
    /\ pc = "note"
    /\ \E outcome \in {"ok", "fail"} :
         /\ calls' = FinishCall(outcome)
         /\ log' = Logged(IF outcome = "ok" THEN "noted" ELSE "note-failed", idx)
    /\ idx' = NextIdx(idx)
    /\ pc' = "loop"
    /\ UNCHANGED <<reqVars, getVars, rowsToLog, existingContact, responses>>

\* the loop is over: await appendToSheet(rowsToLog)   (pixel.js 281-282)
FinishBatch ==
    /\ pc = "loop"
    /\ idx > NumEvents
    /\ appendToSheet(rowsToLog, TRUE)
    /\ UNCHANGED <<reqVars, getVars, idx, rowsToLog, existingContact>>

Next ==
    \/ HandleStructured
    \/ HandleFreeform
    \/ ProcessEvent
    \/ LookupReturns
    \/ CreateReturns
    \/ NoteReturns
    \/ FinishBatch
    \/ AppendReturns

Spec == Init /\ [][Next]_vars

(* ---------- get on its own: every small tree, every short path ---------- *)
TreeKeys == {"a", "b"}
PathKeys == {"a", "b", "c"}
Leaves == {Null, Str(<<"x">>), Num(0)}
ObjectsOver(T) == {Obj(f) : f \in UNION {[S -> T] : S \in SUBSET TreeKeys}}
Trees == Leaves \cup ObjectsOver(Leaves \cup ObjectsOver(Leaves))
Paths == UNION {[1..n -> PathKeys] : n \in 1..MaxPathLen}

InitGet ==
    /\ obj \in Trees \cup {Undef}
    /\ path \in Paths
    /\ result = Undef
    /\ pc = "call"
    /\ handler = "none"
    /\ payload = EmptyObj
    /\ query = <<>>
    /\ GHL_API_KEY = FALSE
    /\ GOOGLE_SHEET_ID = FALSE
    /\ GOOGLE_SHEETS_CREDENTIALS = "absent"
    /\ idx = 0
    /\ rowsToLog = <<>>
    /\ existingContact = Null
    /\ calls = <<>>
    /\ responses = <<>>
    /\ log = <<>>

\* result = get(obj, path) with the default defaultValue = ''
GetCall ==
    /\ pc = "call"
    /\ result' = get(obj, path, Empty)
    /\ pc' = "returned"
    /\ UNCHANGED <<reqVars, obj, path, idx, rowsToLog, existingContact,
                   calls, responses, log>>

NextGet == GetCall

SpecGet == InitGet /\ [][NextGet]_vars

(* ---------- vocabulary of the properties ---------- *)
Structured == handler = "structured"
Terminal == pc \in {"done", "threw"}

CallsOf(op, ev) ==
    {k \in 1..Len(calls) : calls[k].op = op /\ calls[k].ev = ev}
CrmCallsOf(ev) ==
    {k \in 1..Len(calls) : calls[k].op # "append" /\ calls[k].ev = ev}
AppendCalls == {k \in 1..Len(calls) : calls[k].op = "append"}
Failed(k) ==
    \/ calls[k].op = "lookup" /\ calls[k].status = "error"
    \/ calls[k].op \in {"create", "note"} /\ calls[k].status = "fail"

\* appendToSheet has been entered
AppendAttempted ==
    \/ AppendCalls # {}
    \/ \E k \in 1..Len(log) :
         log[k].msg \in {"sheets-not-configured", "no-data", "sheet-failed"}

\* the loop body ran to its end for event i
Processed(i) == i < idx

\* the qualification test, on an event whose loop body does not throw
QualifiesInCode(event) ==
    /\ ~ThrowsBeforeRow(event)
    /\ ~ThrowsAfterRow(event)
    /\ Qualified(event)

\* the console shows that the CRM branch was entered for event i
SyncEntered(i) ==
    \E k \in 1..Len(log) : log[k].msg = "qualified" /\ log[k].ev = i

(* C1: every request to either handler gets exactly one response, a 204    *)
(* with an empty body, whatever the sinks do.                              *)
C1_Always204 ==
    /\ Len(responses) <= 1
    /\ Terminal =>
         /\ Len(responses) = 1
         /\ responses[1].status = NoContent
         /\ responses[1].body = <<>>

(* C2: in the structured handler a malformed payload never makes           *)
(* handleRequest throw; the request completes and is answered with 204.    *)
C2_NeverThrows ==
    Structured => /\ pc # "threw"
                  /\ pc = "done" => Len(responses) = 1

(* C3: once a CRM call of event i has failed, every later event is still   *)
(* processed and the bulk append is still attempted with one row per event *)
C3_FailureIsolation ==
    (Structured /\ Terminal /\ \E k \in 1..Len(calls) : Failed(k)) =>
        /\ pc = "done"
        /\ \A i \in 1..NumEvents : Processed(i)
        /\ Len(rowsToLog) = NumEvents
        /\ AppendAttempted

(* C4: per request the row-sink gets at most one bulk append and none for  *)
(* an empty or absent event list; the CRM-sink gets, for each qualified    *)
(* event, exactly one lookup followed by at most one create-or-note, and   *)
(* nothing for an unqualified event; no call is repeated.                  *)
CallBoundsFor(i) ==
    LET lookups == CallsOf("lookup", i)
        writes == CallsOf("create", i) \cup CallsOf("note", i)
    IN  /\ Cardinality(lookups) <= 1
        /\ Cardinality(writes) <= 1
        /\ \A w \in writes : \E l \in lookups : l < w
        /\ ~QualifiesInCode(EventAt(i)) => CrmCallsOf(i) = {}

SinkBounds ==
    /\ Cardinality(AppendCalls) <= 1
    /\ Structured =>
         /\ NumEvents = 0 => calls = <<>>
         /\ \A i \in 1..NumEvents : CallBoundsFor(i)

C5_Ordering ==
    Structured =>
      /\ \A k \in 1..Len(calls) :
           /\ k < Len(calls) => calls[k].status # "pending"
           /\ k < Len(calls) => calls[k].op # "append"
           /\ \A j \in 1..(k - 1) :
                calls[k].op # "append" => calls[j].ev <= calls[k].ev
           /\ calls[k].op # "append" =>
                /\ calls[k].ev <= Len(rowsToLog)
                /\ calls[k].status = "pending" => calls[k].ev = idx
      /\ AppendCalls # {} =>
           /\ idx > NumEvents
           /\ Len(rowsToLog) = NumEvents
      /\ responses # <<>> =>
           /\ \A k \in 1..Len(calls) : calls[k].status # "pending"
           /\ NumEvents > 0 => (idx > NumEvents /\ AppendAttempted)

C5_Witness ==
    /\ Structured
    /\ responses # <<>>
    /\ NumEvents = MaxEvents
    /\ \A i \in 1..NumEvents : CrmCallsOf(i) # {}
    /\ \E k \in AppendCalls : calls[k].status = "fail"

(* C6: an event enters CRM sync exactly when first and last name are       *)
(* non-empty after trimming and the first e-mail or the digits-only phone  *)
(* is non-empty; with neither e-mail nor phone no CRM call is made.        *)
NonEmptyTrimmed(x) ==
    IF x.t = "string" THEN Len(Trim(x.v)) > 0 ELSE Truthy(x)

C6_Qualification ==
    Structured =>
      \A i \in 1..NumEvents :
         Processed(i) =>
           LET event == EventAt(i)
               contact == Truthy(email(event)) \/ Truthy(sanitizedPhone(event))
           IN  /\ SyncEntered(i) <=>
                    /\ NonEmptyTrimmed(firstName(event))
                    /\ NonEmptyTrimmed(lastName(event))
                    /\ contact
               /\ ~contact => CrmCallsOf(i) = {}

(* C7: in a projected row every string value that begins with "+" carries  *)
(* the leading marker "'", in whatever column, and every other string      *)
(* appears unchanged.                                                      *)
C7_Escaping ==
    Structured =>
      \A r \in 1..Len(rowsToLog) : \A k \in Columns :
         LET raw == Extracted(EventAt(r), SHEET_HEADERS[k])
         IN  raw.t = "string" =>
               IF StartsWithPlus(raw.v)
               THEN SameValue(rowsToLog[r][k], Str(<<"'">> \o raw.v))
               ELSE SameValue(rowsToLog[r][k], raw)

(* C8: get never throws, and returns the default '' when the path is       *)
(* absent, an intermediate value is null or undefined, or the value at the *)
(* end of the path is null.                                                *)
RECURSIVE ValueAt(_, _)
ValueAt(o, keys) ==
    IF keys = <<>> THEN o
    ELSE IF o.t = "object" /\ Head(keys) \in DOMAIN o.v
         THEN ValueAt(o.v[Head(keys)], Tail(keys))
         ELSE Undef

C8_GetDefault ==
    pc = "returned" =>
      /\ result.t # "TypeError"
      /\ IsNullish(ValueAt(obj, path)) => SameValue(result, Empty)

(* C9: every projected row has one value per SHEET_HEADERS column in       *)
(* schema order, the value found for that column or '' when it is missing  *)
(* or falsy, never null or undefined; the batch sent to the row-sink has   *)
(* one such row per event in arrival order.                                *)
RawField(event, h) ==
    IF h \in DOMAIN EventField
    THEN (IF event.t = "object" /\ EventField[h] \in DOMAIN event.v
          THEN event.v[EventField[h]] ELSE Undef)
    ELSE IF event.t = "object" /\ "resolution" \in DOMAIN event.v
            /\ event.v["resolution"].t = "object"
            /\ h \in DOMAIN event.v["resolution"].v
         THEN event.v["resolution"].v[h]
         ELSE Undef

ExpectedCell(event, h) ==
    LET raw == RawField(event, h)
    IN  IF ~Truthy(raw) THEN Empty
        ELSE IF h \in FormattedColumns THEN formatSheetCell(raw)
        ELSE raw

RowProjected(row, event) ==
    /\ DOMAIN row = 1..Len(SHEET_HEADERS)
    /\ \A k \in DOMAIN row :
         /\ ~IsNullish(row[k])
         /\ SameValue(row[k], ExpectedCell(event, SHEET_HEADERS[k]))

C9_RowProjection ==
    Structured =>
      /\ Len(rowsToLog) <= NumEvents
      /\ \A r \in 1..Len(rowsToLog) : RowProjected(rowsToLog[r], EventAt(r))
      /\ \A k \in AppendCalls :
           /\ Len(calls[k].arg.rows) = NumEvents
           /\ calls[k].arg.rows = rowsToLog

C9_Witness ==
    /\ Structured
    /\ AppendCalls # {}
    /\ NumEvents = MaxEvents
    /\ \E r \in 1..NumEvents : \E k \in Columns :
         /\ RawField(EventAt(r), SHEET_HEADERS[k]).t \in {"null", "number"}
         /\ ~Truthy(RawField(EventAt(r), SHEET_HEADERS[k]))
         /\ SameValue(calls[Len(calls)].arg.rows[r][k], Empty)

(* C10: for a qualified event add-note is attempted exactly when the       *)
(* lookup returned a contact and create-contact exactly when it returned   *)
(* none; a lookup that failed counts as no contact, so a create follows.   *)
C10_BranchSelection ==
    Structured =>
      \A k \in 1..Len(calls) :
         /\ (calls[k].op = "lookup" /\ calls[k].status # "pending") =>
              /\ k < Len(calls)
              /\ calls[k + 1].ev = calls[k].ev
              /\ calls[k + 1].op =
                    (IF calls[k].status = "found" THEN "note" ELSE "create")
         /\ calls[k].op \in {"note", "create"} =>
              /\ k > 1
              /\ calls[k - 1].op = "lookup"
              /\ calls[k - 1].ev = calls[k].ev
              /\ (calls[k].op = "note") <=> (calls[k - 1].status = "found")

C10_Witness ==
    /\ Structured
    /\ \E k \in 1..Len(calls) : \E j \in 1..Len(calls) :
         /\ calls[k].op = "lookup" /\ calls[k].status = "error"
         /\ calls[k + 1].op = "create"
         /\ calls[j].op = "lookup" /\ calls[j].status = "found"
         /\ calls[j + 1].op = "note"

====
